---- MODULE Spec2Model ----
(***************************************************************************)
(* YamlPatcher (cosmo_tester/framework/util.py): a scoped editor of a      *)
(* YAML document addressed by dotted paths.  Strings are sequences of      *)
(* one-character strings so that splitting, escaping and the index         *)
(* pattern are computed character by character, as the regular             *)
(* expressions of the source compute them.                                 *)
(***************************************************************************)
EXTENDS Integers, Sequences, FiniteSets, TLC

BS == "\\"
DOT == "."
LB == "["
RB == "]"

Digits == {"0", "1", "2", "3", "4", "5", "6", "7", "8", "9"}

DigitVal(c) ==
  CASE c = "0" -> 0 [] c = "1" -> 1 [] c = "2" -> 2 [] c = "3" -> 3
    [] c = "4" -> 4 [] c = "5" -> 5 [] c = "6" -> 6 [] c = "7" -> 7
    [] c = "8" -> 8 [] c = "9" -> 9

\* int(s) of a string of decimal digits
RECURSIVE IntOf(_)
IntOf(s) ==
  IF s = <<>> THEN 0
  ELSE 10 * IntOf(SubSeq(s, 1, Len(s) - 1)) + DigitVal(s[Len(s)])

(***************************************************************************)
(* Documents: mappings with string keys, lists, integers.                  *)
(***************************************************************************)
EmptyMap == [k \in {} |-> 0]

MapV(m) == [t |-> "map", m |-> m, l |-> <<>>, v |-> 0]
ListV(l) == [t |-> "list", m |-> EmptyMap, l |-> l, v |-> 0]
IntV(n) == [t |-> "int", m |-> EmptyMap, l |-> <<>>, v |-> n]

IsMap(x) == x.t = "map"
IsList(x) == x.t = "list"
IsInt(x) == x.t = "int"

\* d[k] = v on a dict
MapSet(m, k, v) == [x \in (DOMAIN m) \cup {k} |-> IF x = k THEN v ELSE m[x]]
\* d.pop(k) on a dict
MapDel(m, k) == [x \in (DOMAIN m) \ {k} |-> m[x]]

\* A location is the sequence of subscripts that leads from self.obj to
\* the object a Python reference denotes.
KeyStep(k) == [isIdx |-> FALSE, key |-> k, idx |-> 0]
IdxStep(i) == [isIdx |-> TRUE, key |-> <<>>, idx |-> i]

RECURSIVE GetAt(_, _)
GetAt(doc, loc) ==
  IF loc = <<>> THEN doc
  ELSE IF Head(loc).isIdx
       THEN GetAt(doc.l[Head(loc).idx + 1], Tail(loc))
       ELSE GetAt(doc.m[Head(loc).key], Tail(loc))

RECURSIVE PutAt(_, _, _)
PutAt(doc, loc, val) ==
  IF loc = <<>> THEN val
  ELSE IF Head(loc).isIdx
       THEN ListV([doc.l EXCEPT ![Head(loc).idx + 1] =
                     PutAt(doc.l[Head(loc).idx + 1], Tail(loc), val)])
       ELSE MapV(MapSet(doc.m, Head(loc).key,
                        PutAt(doc.m[Head(loc).key], Tail(loc), val)))

(***************************************************************************)
(* pattern = re.compile("(.+)\[(\d+)\]"), used with .match: a prefix of    *)
(* the string must have the form name[digits]; (.+) is greedy, so the      *)
(* last such bracket group decides.                                        *)
(***************************************************************************)
\* the position of the "]" closing digits that start at i, or 0
RECURSIVE DigitsEnd(_, _)
DigitsEnd(s, i) ==
  IF i > Len(s) THEN 0
  ELSE IF s[i] \in Digits THEN DigitsEnd(s, i + 1)
  ELSE IF s[i] = RB THEN i
  ELSE 0

BracketAt(s, i) ==
  /\ i >= 2
  /\ i + 2 <= Len(s)
  /\ s[i] = LB
  /\ s[i + 1] \in Digits
  /\ DigitsEnd(s, i + 1) # 0

PatternBrackets(s) == {i \in 1..Len(s) : BracketAt(s, i)}

PatternMatches(s) == PatternBrackets(s) # {}

MaxOf(S) == CHOOSE x \in S : \A y \in S : y <= x

\* group(1)
PatternName(s) == SubSeq(s, 1, MaxOf(PatternBrackets(s)) - 1)

\* int(group(2))
PatternIndex(s) ==
  LET i == MaxOf(PatternBrackets(s))
  IN IntOf(SubSeq(s, i + 1, DigitsEnd(s, i + 1) - 1))

(***************************************************************************)
(* _split_path                                                             *)
(***************************************************************************)
\* str.replace of the two-character string <<a, b>> by <<c>>
RECURSIVE Replace2(_, _, _, _)
Replace2(s, a, b, c) ==
  IF Len(s) < 2 THEN s
  ELSE IF s[1] = a /\ s[2] = b
       THEN <<c>> \o Replace2(SubSeq(s, 3, Len(s)), a, b, c)
       ELSE <<s[1]>> \o Replace2(Tail(s), a, b, c)

\* p.replace('\.', '.').replace('\\\\', '\\')
Unescape(p) == Replace2(Replace2(p, BS, DOT, DOT), BS, BS, BS)

\* p.replace('.', '\.')
RECURSIVE EscapeDots(_)
EscapeDots(p) ==
  IF p = <<>> THEN <<>>
  ELSE (IF Head(p) = DOT THEN <<BS, DOT>> ELSE <<Head(p)>>)
       \o EscapeDots(Tail(p))

\* the regular expression (?<![^\\]\\)\. matches at position i
IsSeparator(path, i) ==
  /\ path[i] = DOT
  /\ ~(i >= 3 /\ path[i - 1] = BS /\ path[i - 2] # BS)

\* re.split: the pieces of path between the separators, from position i
RECURSIVE SplitFrom(_, _, _)
SplitFrom(path, i, acc) ==
  IF i > Len(path) THEN <<acc>>
  ELSE IF IsSeparator(path, i)
       THEN <<acc>> \o SplitFrom(path, i + 1, <<>>)
       ELSE SplitFrom(path, i + 1, Append(acc, path[i]))

SplitPath(path) ==
  LET parts == SplitFrom(path, 1, <<>>)
  IN [i \in 1..Len(parts) |-> Unescape(parts[i])]

\* '.'.join(parts)
RECURSIVE Join(_)
Join(parts) ==
  IF Len(parts) = 0 THEN <<>>
  ELSE IF Len(parts) = 1 THEN parts[1]
  ELSE parts[1] \o <<DOT>> \o Join(Tail(parts))

\* '.'.join(p.replace('.', '\.') for p in parts)
JoinEscaped(parts) == Join([i \in 1..Len(parts) |-> EscapeDots(parts[i])])

(***************************************************************************)
(* Exceptions, by class and (for the two assertions) message.              *)
(***************************************************************************)
NoErr == "none"
IllegalPath == "RuntimeError: illegal path"
IndexErr == "IndexError"
KeyErr == "KeyError"
TypeErr == "TypeError"
NotListErr == "AssertionError: Cannot set list value for not list item"
BadIndexErr == "AssertionError: Cannot set list value"
BodyErr == "Exception"

Raised(e, o) == [err |-> e, obj |-> o, loc |-> <<>>]

(***************************************************************************)
(* _get_object_by_path: the loop over the segments.  doc is self.obj as    *)
(* modified so far, loc the location of `current`.                         *)
(***************************************************************************)
Entered(o, loc) == [err |-> NoErr, obj |-> o, loc |-> loc]

\* the indexed branch with the membership test left out: the subscript
\* raises KeyError for an absent name
WalkIndexedUnchecked(doc, loc, current, property_name, index) ==
  IF ~IsMap(current) THEN Raised(TypeErr, doc)
  ELSE IF property_name \notin DOMAIN current.m THEN Raised(KeyErr, doc)
  ELSE IF ~IsList(current.m[property_name]) THEN Raised(IllegalPath, doc)
  ELSE IF index >= Len(current.m[property_name].l) THEN Raised(IndexErr, doc)
  ELSE Entered(doc, loc \o <<KeyStep(property_name), IdxStep(index)>>)

\* a segment that matches the pattern
WalkIndexed(doc, loc, current, property_name, index) ==
  IF IsInt(current) THEN Raised(TypeErr, doc)
  ELSE IF IsList(current) THEN Raised(IllegalPath, doc)
  ELSE IF property_name \notin DOMAIN current.m THEN Raised(IllegalPath, doc)
  ELSE IF ~IsList(current.m[property_name]) THEN Raised(IllegalPath, doc)
  ELSE IF index >= Len(current.m[property_name].l) THEN Raised(IndexErr, doc)
  ELSE Entered(doc, loc \o <<KeyStep(property_name), IdxStep(index)>>)

\* a segment that does not
WalkPlain(doc, loc, current, prop_segment) ==
  IF ~IsMap(current) THEN Raised(TypeErr, doc)
  ELSE IF prop_segment \notin DOMAIN current.m
       THEN Entered(PutAt(doc, loc,
                          MapV(MapSet(current.m, prop_segment,
                                      MapV(EmptyMap)))),
                    Append(loc, KeyStep(prop_segment)))
  ELSE Entered(doc, Append(loc, KeyStep(prop_segment)))

\* one iteration of the loop
WalkSegment(doc, loc, prop_segment) ==
  IF PatternMatches(prop_segment)
  THEN WalkIndexed(doc, loc, GetAt(doc, loc), PatternName(prop_segment),
                   PatternIndex(prop_segment))
  ELSE WalkPlain(doc, loc, GetAt(doc, loc), prop_segment)

RECURSIVE Walk(_, _, _)
RECURSIVE WalkOn(_, _)

\* the iterations after one that left r
WalkOn(r, segs) == IF r.err # NoErr THEN r ELSE Walk(r.obj, r.loc, segs)

Walk(doc, loc, segs) ==
  IF segs = <<>> THEN Entered(doc, loc)
  ELSE WalkOn(WalkSegment(doc, loc, Head(segs)), Tail(segs))

GetObjectByPath(o, prop_path) == Walk(o, <<>>, SplitPath(prop_path))

\* what _get_parent_obj_prop_name_by_path returns: the exception, self.obj
\* afterwards, the location of parent_obj, and prop_name
Returned(r, prop_name) ==
  [err |-> r.err, obj |-> r.obj, loc |-> r.loc, prop_name |-> prop_name]

ParentOfSplit(o, prop_path, split) ==
  IF Len(split) = 1
  THEN Returned(Entered(o, <<>>), prop_path)
  ELSE Returned(GetObjectByPath(o, JoinEscaped(SubSeq(split, 1,
                                                      Len(split) - 1))),
                split[Len(split)])

GetParentObjPropNameByPath(o, prop_path) ==
  ParentOfSplit(o, prop_path, SplitPath(prop_path))

Result(e, o) == [err |-> e, obj |-> o]

\* obj.setdefault(key, value) in place of the assignment
MergeIntoKeepingExisting(m, merged_props) ==
  [k \in (DOMAIN m) \cup (DOMAIN merged_props) |->
     IF k \in DOMAIN m THEN m[k] ELSE merged_props[k]]

\* for key, value in merged_props.items(): obj[key] = value
MergeInto(m, merged_props) ==
  [k \in (DOMAIN m) \cup (DOMAIN merged_props) |->
     IF k \in DOMAIN merged_props THEN merged_props[k] ELSE m[k]]

\* the loop of merge_obj on the object target at r.loc
MergeAt(r, target, merged_props) ==
  IF DOMAIN merged_props = {} THEN Result(NoErr, r.obj)
  ELSE IF ~IsMap(target) THEN Result(TypeErr, r.obj)
  ELSE Result(NoErr,
              PutAt(r.obj, r.loc, MapV(MergeInto(target.m, merged_props))))

\* merge_obj once _get_object_by_path left r
MergeOn(r, merged_props) ==
  IF r.err # NoErr THEN Result(r.err, r.obj)
  ELSE MergeAt(r, GetAt(r.obj, r.loc), merged_props)

merge_obj(o, obj_prop_path, merged_props) ==
  MergeOn(GetObjectByPath(o, obj_prop_path), merged_props)

\* the list branch with index >= len(obj) refused
SetListItemNoAppend(lst, index, new_value) ==
  IF index >= Len(lst) THEN [err |-> BadIndexErr, l |-> lst]
  ELSE [err |-> NoErr, l |-> [lst EXCEPT ![index + 1] = new_value]]

\* the list branch of set_value, from the index check on
SetListItem(lst, index, new_value) ==
  IF index > Len(lst) THEN [err |-> BadIndexErr, l |-> lst]
  ELSE IF index = Len(lst)
       THEN [err |-> NoErr, l |-> Append(lst, new_value)]
  ELSE [err |-> NoErr, l |-> [lst EXCEPT ![index + 1] = new_value]]

\* the assignment of the outcome w of the list branch
SetListAt(r, lloc, w) == Result(w.err, PutAt(r.obj, lloc, ListV(w.l)))

\* the branch of set_value for a prop_name that matches the pattern
SetIndexedAt(r, parent, prop_name, index, new_value) ==
  IF ~IsMap(parent) THEN Result(TypeErr, r.obj)
  ELSE IF prop_name \notin DOMAIN parent.m THEN Result(KeyErr, r.obj)
  ELSE IF ~IsList(parent.m[prop_name]) THEN Result(NotListErr, r.obj)
  ELSE SetListAt(r, Append(r.loc, KeyStep(prop_name)),
                 SetListItem(parent.m[prop_name].l, index, new_value))

\* the branch for one that does not
SetPlainAt(r, parent, new_value) ==
  IF ~IsMap(parent) THEN Result(TypeErr, r.obj)
  ELSE Result(NoErr,
              PutAt(r.obj, r.loc,
                    MapV(MapSet(parent.m, r.prop_name, new_value))))

\* set_value once _get_parent_obj_prop_name_by_path left r
SetOn(r, new_value) ==
  IF r.err # NoErr THEN Result(r.err, r.obj)
  ELSE IF PatternMatches(r.prop_name)
       THEN SetIndexedAt(r, GetAt(r.obj, r.loc), PatternName(r.prop_name),
                         PatternIndex(r.prop_name), new_value)
  ELSE SetPlainAt(r, GetAt(r.obj, r.loc), new_value)

set_value(o, prop_path, new_value) ==
  SetOn(GetParentObjPropNameByPath(o, prop_path), new_value)

\* the + of two values
CanAdd(x, y) == (IsInt(x) /\ IsInt(y)) \/ (IsList(x) /\ IsList(y))
Add(x, y) == IF IsInt(x) THEN IntV(x.v + y.v) ELSE ListV(x.l \o y.l)

\* obj[prop_name] = obj[prop_name] + value
AppendAt(r, parent, value) ==
  IF ~IsMap(parent) THEN Result(TypeErr, r.obj)
  ELSE IF r.prop_name \notin DOMAIN parent.m THEN Result(KeyErr, r.obj)
  ELSE IF ~CanAdd(parent.m[r.prop_name], value) THEN Result(TypeErr, r.obj)
  ELSE Result(NoErr,
              PutAt(r.obj, r.loc,
                    MapV(MapSet(parent.m, r.prop_name,
                                Add(parent.m[r.prop_name], value)))))

\* append_value once _get_parent_obj_prop_name_by_path left r
AppendOn(r, value) ==
  IF r.err # NoErr THEN Result(r.err, r.obj)
  ELSE AppendAt(r, GetAt(r.obj, r.loc), value)

append_value(o, prop_path, value) ==
  AppendOn(GetParentObjPropNameByPath(o, prop_path), value)

\* the test and pop of delete_property
DeleteAt(r, parent, raise_if_missing) ==
  IF IsInt(parent) THEN Result(TypeErr, r.obj)
  ELSE IF IsMap(parent) /\ r.prop_name \in DOMAIN parent.m
       THEN Result(NoErr,
                   PutAt(r.obj, r.loc, MapV(MapDel(parent.m, r.prop_name))))
  ELSE IF raise_if_missing THEN Result(KeyErr, r.obj)
  ELSE Result(NoErr, r.obj)

\* delete_property once _get_parent_obj_prop_name_by_path left r
DeleteOn(r, raise_if_missing) ==
  IF r.err # NoErr THEN Result(r.err, r.obj)
  ELSE DeleteAt(r, GetAt(r.obj, r.loc), raise_if_missing)

delete_property(o, prop_path, raise_if_missing) ==
  DeleteOn(GetParentObjPropNameByPath(o, prop_path), raise_if_missing)

(***************************************************************************)
(* The file: the token stream of its text.  json.dumps writes flow         *)
(* collections with double-quoted strings; yaml.safe_dump writes flow      *)
(* collections (default_flow_style=True) or block collections, in which    *)
(* empty collections are still written {} and [].  yaml.load reads all     *)
(* of them.                                                                *)
(***************************************************************************)
Tok(c) == [c |-> c, s |-> <<>>, n |-> 0]
StrTok(s, quoted) == [c |-> IF quoted THEN "dqstr" ELSE "str", s |-> s, n |-> 0]
IntTok(n) == [c |-> "int", s |-> <<>>, n |-> n]

RECURSIVE DumpNode(_, _, _)
RECURSIVE DumpItems(_, _, _, _)
RECURSIVE DumpList(_, _, _, _)

DumpNode(x, is_json, flow) ==
  IF IsInt(x) THEN <<IntTok(x.v)>>
  ELSE IF IsMap(x)
       THEN IF flow \/ DOMAIN x.m = {}
            THEN <<Tok("{")>> \o DumpItems(x.m, is_json, flow, TRUE)
                   \o <<Tok("}")>>
            ELSE <<Tok("block-mapping-start")>>
                   \o DumpItems(x.m, is_json, flow, TRUE)
                   \o <<Tok("block-end")>>
       ELSE IF flow \/ x.l = <<>>
            THEN <<Tok("[")>> \o DumpList(x.l, is_json, flow, TRUE)
                   \o <<Tok("]")>>
            ELSE <<Tok("block-sequence-start")>>
                   \o DumpList(x.l, is_json, flow, TRUE)
                   \o <<Tok("block-end")>>

DumpItems(m, is_json, flow, first) ==
  IF DOMAIN m = {} THEN <<>>
  ELSE LET k == CHOOSE x \in DOMAIN m : TRUE
       IN (IF flow /\ ~first THEN <<Tok(",")>> ELSE <<>>)
          \o <<Tok("key"), StrTok(k, is_json), Tok("value")>>
          \o DumpNode(m[k], is_json, flow)
          \o DumpItems(MapDel(m, k), is_json, flow, FALSE)

DumpList(l, is_json, flow, first) ==
  IF l = <<>> THEN <<>>
  ELSE (IF flow THEN (IF first THEN <<>> ELSE <<Tok(",")>>)
        ELSE <<Tok("block-entry")>>)
       \o DumpNode(Head(l), is_json, flow)
       \o DumpList(Tail(l), is_json, flow, FALSE)

\* json.dumps(self.obj) if self.is_json else
\* yaml.safe_dump(self.obj, default_flow_style=self.default_flow_style)
Dump(x, is_json, default_flow_style) ==
  DumpNode(x, is_json, is_json \/ default_flow_style)

RECURSIVE ParseNode(_, _)
RECURSIVE ParseMapping(_, _, _)
RECURSIVE ParseSequence(_, _, _)

ParseNode(t, i) ==
  IF t[i].c = "int" THEN [val |-> IntV(t[i].n), next |-> i + 1]
  ELSE IF t[i].c \in {"{", "block-mapping-start"}
       THEN ParseMapping(t, i + 1, EmptyMap)
  ELSE ParseSequence(t, i + 1, <<>>)

ParseMapping(t, i, acc) ==
  IF t[i].c \in {"}", "block-end"} THEN [val |-> MapV(acc), next |-> i + 1]
  ELSE IF t[i].c = "," THEN ParseMapping(t, i + 1, acc)
  ELSE LET r == ParseNode(t, i + 3)
       IN ParseMapping(t, r.next, MapSet(acc, t[i + 1].s, r.val))

ParseSequence(t, i, acc) ==
  IF t[i].c \in {"]", "block-end"} THEN [val |-> ListV(acc), next |-> i + 1]
  ELSE IF t[i].c \in {",", "block-entry"} THEN ParseSequence(t, i + 1, acc)
  ELSE LET r == ParseNode(t, i)
       IN ParseSequence(t, r.next, Append(acc, r.val))

\* yaml.load(text)
Load(t) == ParseNode(t, 1).val

(***************************************************************************)
(* The session.                                                            *)
(***************************************************************************)
VARIABLES
  file,                 \* the text at yaml_path, as tokens
  obj,                  \* self.obj
  is_json,              \* self.is_json
  default_flow_style,   \* self.default_flow_style
  pc,                   \* "open": inside the with block; "done": left it
                        \* normally; "failed": left it by an exception
  exc,                  \* the exception propagating after __exit__
  last,                 \* the latest call in this scope, self.obj before
                        \* it and the exception it raised
  calls,                \* number of calls made
  writes,               \* write_text calls of this session
  saved                 \* the file's text when this scope was opened

vars == <<file, obj, is_json, default_flow_style, pc, exc, last, calls,
          writes, saved>>

MaxCalls == 1

A == <<"a">>
B == <<"b">>
AB == <<"a", ".", "b">>
B0 == <<"b", "[", "0", "]">>
B3 == <<"b", "[", "3", "]">>
B5 == <<"b", "[", "5", "]">>
A0 == <<"a", "[", "0", "]">>
DA == <<".", "a">>

\* the segment lists the callers address; a call passes JoinEscaped of one
SegLists ==
  { <<A>>, <<B>>, <<AB>>, <<DA>>, <<B0>>, <<B3>>, <<B5>>,
    <<A, B>>, <<A, B0>>, <<A, B3>>, <<A, B5>>, <<A, AB>>, <<AB, A>>,
    <<B, A>>, <<B0, A>>, <<B3, A>>, <<A0, B>>, <<DA, A>>,
    <<A, AB, A>>, <<AB, A, B>> }

Values == {IntV(4), ListV(<<IntV(9)>>)}

Props == {B :> IntV(4), (A :> ListV(<<IntV(9)>>)) @@ (AB :> IntV(4))}

List123 == ListV(<<IntV(1), IntV(2), IntV(3)>>)

\* the files and constructor arguments the sessions start from
Sessions ==
  { [doc |-> MapV(A :> MapV(B :> List123)),
     is_json |-> FALSE, default_flow_style |-> TRUE, flow |-> TRUE],
    [doc |-> MapV((AB :> IntV(1))
                  @@ (A :> MapV((A :> MapV(B :> IntV(2))) @@ (B :> IntV(2))))),
     is_json |-> TRUE, default_flow_style |-> TRUE, flow |-> FALSE],
    [doc |-> MapV(B :> ListV(<<MapV(A :> IntV(1)), IntV(2), IntV(3)>>)),
     is_json |-> FALSE, default_flow_style |-> FALSE, flow |-> FALSE],
    [doc |-> MapV(A :> IntV(1)),
     is_json |-> TRUE, default_flow_style |-> FALSE, flow |-> TRUE] }

NoCall ==
  [op |-> "none", segs |-> <<>>, path |-> <<>>, value |-> IntV(0),
   props |-> EmptyMap, raise_if_missing |-> FALSE, pre |-> IntV(0),
   err |-> NoErr]

Call(op, segs, value, props, rim, err) ==
  [op |-> op, segs |-> segs, path |-> JoinEscaped(segs), value |-> value,
   props |-> props, raise_if_missing |-> rim, pre |-> obj, err |-> err]

\* __init__ on a file written as YAML, in flow or block style
Init ==
  /\ \E c \in Sessions :
       /\ file = Dump(c.doc, FALSE, c.flow)
       /\ is_json = c.is_json
       /\ default_flow_style = c.default_flow_style
  /\ obj = Load(file)
  /\ pc = "open"
  /\ exc = NoErr
  /\ last = NoCall
  /\ calls = 0
  /\ writes = 0
  /\ saved = file

InScope == pc = "open" /\ calls < MaxCalls

\* a call made in the scope, with outcome r
Called(op, segs, value, props, rim, r) ==
  /\ obj' = r.obj
  /\ last' = Call(op, segs, value, props, rim, r.err)
  /\ calls' = calls + 1
  /\ UNCHANGED <<file, is_json, default_flow_style, pc, exc, writes, saved>>

MergeObj ==
  /\ InScope
  /\ \E segs \in SegLists, props \in Props :
       Called("merge_obj", segs, IntV(0), props, FALSE,
              merge_obj(obj, JoinEscaped(segs), props))

SetValue ==
  /\ InScope
  /\ \E segs \in SegLists, v \in Values :
       Called("set_value", segs, v, EmptyMap, FALSE,
              set_value(obj, JoinEscaped(segs), v))

AppendValue ==
  /\ InScope
  /\ \E segs \in SegLists, v \in Values :
       Called("append_value", segs, v, EmptyMap, FALSE,
              append_value(obj, JoinEscaped(segs), v))

DeleteProperty ==
  /\ InScope
  /\ \E segs \in SegLists, rim \in BOOLEAN :
       Called("delete_property", segs, IntV(0), EmptyMap, rim,
              delete_property(obj, JoinEscaped(segs), rim))

\* the exceptions that can leave the with block: that of the latest call,
\* if the block did not catch it, or one the block itself raised
Leaving == {NoErr, BodyErr} \cup {last.err}

\* __exit__ without the test of exc_type
ExitAlwaysWrites ==
  /\ pc = "open"
  /\ \E exc_type \in Leaving :
       /\ file' = Dump(obj, is_json, default_flow_style)
       /\ writes' = writes + 1
       /\ pc' = IF exc_type = NoErr THEN "done" ELSE "failed"
       /\ exc' = exc_type
  /\ UNCHANGED <<obj, is_json, default_flow_style, last, calls, saved>>

\* __exit__ with the test of exc_type inverted
ExitInverted ==
  /\ pc = "open"
  /\ \E exc_type \in Leaving :
       /\ IF exc_type # NoErr
          THEN /\ file' = Dump(obj, is_json, default_flow_style)
               /\ writes' = writes + 1
          ELSE UNCHANGED <<file, writes>>
       /\ pc' = IF exc_type = NoErr THEN "done" ELSE "failed"
       /\ exc' = exc_type
  /\ UNCHANGED <<obj, is_json, default_flow_style, last, calls, saved>>

\* __exit__(exc_type, exc_val, exc_tb); it returns None, so the exception
\* propagates
Exit ==
  /\ pc = "open"
  /\ \E exc_type \in Leaving :
       /\ IF exc_type = NoErr
          THEN /\ file' = Dump(obj, is_json, default_flow_style)
               /\ writes' = writes + 1
               /\ pc' = "done"
          ELSE /\ UNCHANGED <<file, writes>>
               /\ pc' = "failed"
       /\ exc' = exc_type
  /\ UNCHANGED <<obj, is_json, default_flow_style, last, calls, saved>>

Next ==
  \/ MergeObj
  \/ SetValue
  \/ AppendValue
  \/ DeleteProperty
  \/ Exit

Spec == Init /\ [][Next]_vars

(***************************************************************************)
(* Properties.  A call is judged on last (the call, self.obj before it,    *)
(* its exception) and obj (self.obj after it).                             *)
(***************************************************************************)
Front(q) == SubSeq(q, 1, Len(q) - 1)
Final(q) == q[Len(q)]

\* what _get_parent_obj_prop_name_by_path returned to the latest call
Resolved == GetParentObjPropNameByPath(last.pre, last.path)
\* the parent object it returned, before the call's own assignment
Parent == GetAt(Resolved.obj, Resolved.loc)

IsParentCall == last.op \in {"set_value", "append_value", "delete_property"}

\* C1: when an exception propagates out of the scope, __exit__ writes
\* nothing, the file is what it was when the scope opened, and the
\* exception still propagates after __exit__.
C1_NoWriteBackOnError ==
  pc = "failed" => (writes = 0 /\ file = saved /\ exc # NoErr)

C1_Witness ==
  /\ pc = "failed"
  /\ last.op # "none"
  /\ exc = last.err
  /\ obj # Load(saved)

C2_WitnessNoCall ==
  /\ pc = "done"
  /\ last.op = "none"
  /\ file # saved

\* the case of C3: set_value whose final segment is arr[N], arr a list of
\* the parent
IndexedOnList ==
  /\ last.op = "set_value"
  /\ Resolved.err = NoErr
  /\ PatternMatches(Resolved.prop_name)
  /\ IsMap(Parent)
  /\ PatternName(Resolved.prop_name) \in DOMAIN Parent.m
  /\ IsList(Parent.m[PatternName(Resolved.prop_name)])

ArrBefore == Parent.m[PatternName(Resolved.prop_name)].l
ArrLoc == Append(Resolved.loc, KeyStep(PatternName(Resolved.prop_name)))
ArrAfter == GetAt(obj, ArrLoc).l
ArrIndex == PatternIndex(Resolved.prop_name)

Scenario == MapV(A :> MapV(B :> List123))

\* C3: set_value on arr[N] appends when N = len(arr), overwrites element N
\* when N < len(arr), and fails leaving the list as it was when
\* N > len(arr); the document {a: {b: [1,2,3]}} behaves as the scenario says.
C3_IndexedSetValue ==
  /\ IndexedOnList =>
       /\ ArrIndex = Len(ArrBefore) =>
            /\ last.err = NoErr
            /\ ArrAfter = Append(ArrBefore, last.value)
            /\ Len(ArrAfter) = Len(ArrBefore) + 1
       /\ ArrIndex < Len(ArrBefore) =>
            /\ last.err = NoErr
            /\ Len(ArrAfter) = Len(ArrBefore)
            /\ ArrAfter = [ArrBefore EXCEPT ![ArrIndex + 1] = last.value]
       /\ ArrIndex > Len(ArrBefore) =>
            /\ last.err = BadIndexErr
            /\ ArrAfter = ArrBefore
  /\ (last.op = "set_value" /\ last.pre = Scenario) =>
       /\ (last.segs = <<A, B3>> /\ last.value = IntV(4)) =>
            obj = MapV(A :> MapV(B :> ListV(Append(List123.l, IntV(4)))))
       /\ last.segs = <<A, B5>> => (last.err = BadIndexErr /\ obj = Scenario)

C3_WitnessAppend ==
  /\ IndexedOnList
  /\ ArrIndex = Len(ArrBefore)
  /\ Len(ArrAfter) = 4

C3_Witness ==
  /\ IndexedOnList
  /\ last.pre = Scenario
  /\ last.segs = <<A, B5>>
  /\ last.err = BadIndexErr

\* every segment is a plain key and the path leads through mappings to a
\* key that exists
RECURSIVE PlainExisting(_, _)
PlainExisting(doc, segs) ==
  IF segs = <<>> THEN TRUE
  ELSE /\ ~PatternMatches(Head(segs))
       /\ IsMap(doc)
       /\ Head(segs) \in DOMAIN doc.m
       /\ PlainExisting(doc.m[Head(segs)], Tail(segs))

\* reading a path: the object _get_object_by_path returns for it
ReadPath(o, path) ==
  LET r == GetObjectByPath(o, path) IN GetAt(r.obj, r.loc)

\* C4: set_value(P, v) on a path to an existing plain key, then reading P,
\* yields v.
C4_SetThenRead ==
  (last.op = "set_value" /\ PlainExisting(last.pre, last.segs)) =>
    /\ last.err = NoErr
    /\ GetObjectByPath(obj, last.path).err = NoErr
    /\ ReadPath(obj, last.path) = last.value

\* the path is of plain keys, leads through mappings, and at some point a
\* key is absent
RECURSIVE TargetAbsent(_, _)
TargetAbsent(doc, segs) ==
  /\ segs # <<>>
  /\ ~PatternMatches(Head(segs))
  /\ IsMap(doc)
  /\ IF Head(segs) \in DOMAIN doc.m
     THEN Len(segs) > 1 /\ TargetAbsent(doc.m[Head(segs)], Tail(segs))
     ELSE \A i \in 1..Len(segs) : ~PatternMatches(segs[i])

\* C5: delete_property of a key that does not exist, its intermediate
\* segment existing or not, with raise_if_missing=False raises nothing and
\* leaves the document equal; with raise_if_missing=True it raises KeyError.
C5_DeleteMissing ==
  (last.op = "delete_property" /\ Len(last.segs) = 2
     /\ TargetAbsent(last.pre, last.segs)) =>
    IF last.raise_if_missing THEN last.err = KeyErr
    ELSE last.err = NoErr /\ obj = last.pre

\* C6: an escaped dot is a literal dot of one segment wherever it stands:
\* the path splits into the key names it was written from, and the calls
\* address those names.
C6_EscapedDots ==
  last.op # "none" =>
    /\ SplitPath(last.path) = last.segs
    /\ IsParentCall => Resolved.prop_name = Final(last.segs)

\* the keys of every mapping of a document, each with its location
RECURSIVE KeysOf(_, _)
KeysOf(doc, loc) ==
  IF IsMap(doc)
  THEN UNION {{Append(loc, KeyStep(k))} \cup KeysOf(doc.m[k],
                                                   Append(loc, KeyStep(k))) :
              k \in DOMAIN doc.m}
  ELSE IF IsList(doc)
  THEN UNION {KeysOf(doc.l[i], Append(loc, IdxStep(i - 1))) :
              i \in 1..Len(doc.l)}
  ELSE {}

\* C7: append_value on a key that does not exist raises KeyError and no
\* mapping of the document gains or loses a key.
C7_AppendMissing ==
  (last.op = "append_value" /\ TargetAbsent(last.pre, last.segs)) =>
    /\ last.err = KeyErr
    /\ KeysOf(obj, <<>>) = KeysOf(last.pre, <<>>)

\* the case of C8: set_value whose final segment is name[index], name not
\* a list of the parent mapping (absent included)
IndexedNotOnList ==
  /\ last.op = "set_value"
  /\ Resolved.err = NoErr
  /\ PatternMatches(Resolved.prop_name)
  /\ IsMap(Parent)
  /\ (PatternName(Resolved.prop_name) \in DOMAIN Parent.m =>
        ~IsList(Parent.m[PatternName(Resolved.prop_name)]))

\* C8: set_value on name[index] raises the not-a-list error whenever name
\* is not a list of the parent, absent included, and the parent mapping
\* is not modified.
C8_IndexedOnNonList ==
  IndexedNotOnList =>
    /\ last.err = NotListErr
    /\ GetAt(obj, Resolved.loc) = Parent

\* the segments the latest call walked with _get_object_by_path
WalkedSegments ==
  IF last.op = "merge_obj" THEN SplitPath(last.path)
  ELSE IF Len(SplitPath(last.path)) = 1 THEN <<>>
  ELSE SplitPath(JoinEscaped(Front(SplitPath(last.path))))

\* the walk of the first k of them
WalkedTo(k) == Walk(last.pre, <<>>, SubSeq(WalkedSegments, 1, k))

\* C9: each segment walked from a mapping: a plain one that is absent is
\* created as an empty mapping and entered; an indexed one changes nothing
\* in the document, raises the illegal-path error when its name is absent
\* or not a list, IndexError when the index is not below the length, and
\* otherwise enters that element.
C9_WalkStep ==
  last.op # "none" =>
    \A k \in 1..Len(WalkedSegments) :
      LET before == WalkedTo(k - 1)
          after == WalkedTo(k)
          seg == WalkedSegments[k]
          current == GetAt(before.obj, before.loc)
      IN (before.err = NoErr /\ IsMap(current)) =>
           IF PatternMatches(seg)
           THEN LET name == PatternName(seg)
                    index == PatternIndex(seg)
                IN /\ after.obj = before.obj
                   /\ IF name \notin DOMAIN current.m
                      THEN after.err = IllegalPath
                      ELSE IF ~IsList(current.m[name])
                      THEN after.err = IllegalPath
                      ELSE IF index >= Len(current.m[name].l)
                      THEN after.err = IndexErr
                      ELSE /\ after.err = NoErr
                           /\ after.loc = before.loc
                                \o <<KeyStep(name), IdxStep(index)>>
                   /\ (after.err # NoErr /\ k = Len(WalkedSegments)) =>
                        (last.err = after.err /\ obj = before.obj)
           ELSE /\ after.err = NoErr
                /\ after.loc = Append(before.loc, KeyStep(seg))
                /\ IF seg \in DOMAIN current.m
                   THEN after.obj = before.obj
                   ELSE after.obj =
                          PutAt(before.obj, before.loc,
                                MapV(MapSet(current.m, seg, MapV(EmptyMap))))

C9_WitnessCreated ==
  /\ last.op # "none"
  /\ \E k \in 1..Len(WalkedSegments) :
       /\ WalkedTo(k - 1).err = NoErr
       /\ WalkedTo(k).obj # WalkedTo(k - 1).obj

C9_Witness ==
  /\ last.op # "none"
  /\ Len(WalkedSegments) >= 1
  /\ PatternMatches(WalkedSegments[1])
  /\ WalkedTo(1).err = NoErr
  /\ last.err = NoErr
  /\ obj # last.pre

C9_WitnessIndexError ==
  /\ last.op # "none"
  /\ last.err = IndexErr

C9_WitnessIllegal ==
  /\ last.op # "none"
  /\ last.err = IllegalPath

\* the container merge_obj resolved, before and after the merge
Container == GetObjectByPath(last.pre, last.path)
ContainerBefore == GetAt(Container.obj, Container.loc)
ContainerAfter == GetAt(obj, Container.loc)

\* C10: merge_obj overwrites in the container exactly the keys of
\* merged_props, each with the value given (a nested value is replaced,
\* not merged into), keeps every other key of the container, and changes
\* nothing outside the container beyond the mappings the walk created.
C10_ShallowMerge ==
  (last.op = "merge_obj" /\ Container.err = NoErr /\ IsMap(ContainerBefore)) =>
    /\ last.err = NoErr
    /\ IsMap(ContainerAfter)
    /\ DOMAIN ContainerAfter.m
         = (DOMAIN ContainerBefore.m) \cup (DOMAIN last.props)
    /\ \A k \in DOMAIN last.props : ContainerAfter.m[k] = last.props[k]
    /\ \A k \in (DOMAIN ContainerBefore.m) \ (DOMAIN last.props) :
         ContainerAfter.m[k] = ContainerBefore.m[k]
    /\ PutAt(obj, Container.loc, ContainerBefore) = Container.obj
    /\ PlainExisting(last.pre, SplitPath(last.path)) =>
         PutAt(obj, Container.loc, ContainerBefore) = last.pre

\* a nested value under a merged key is replaced by the given one
C10_Witness ==
  /\ last.op = "merge_obj"
  /\ Container.err = NoErr
  /\ IsMap(ContainerBefore)
  /\ \E k \in (DOMAIN last.props) \cap (DOMAIN ContainerBefore.m) :
       /\ ~IsInt(ContainerBefore.m[k])
       /\ ContainerAfter.m[k] # ContainerBefore.m[k]
  /\ (DOMAIN ContainerBefore.m) \ (DOMAIN last.props) # {}

====
